---- MODULE Spec2Model ----
(***************************************************************************)
(* Model of kataBump_renew_batch.py: the renewal-window rule               *)
(* (should_renew_utc0), the batch parser (build_accounts_from_env), the   *)
(* per-account runner (renew_one_account) and the orchestrator (main).    *)
(*                                                                         *)
(* Text is modelled as a sequence of one-character strings, so that the   *)
(* code's strip / split / strptime / re.sub work on characters.           *)
(***************************************************************************)
EXTENDS Integers, Sequences, FiniteSets, TLC

VARIABLES
    \* ---- should_renew_utc0 applied to injected inputs
    expiry_str,     \* the expiry_str argument (text)
    now_utc,        \* the now_utc argument (an aware UTC datetime)
    srcDate,        \* the calendar date expiry_str was written from, or NoDate
    renew_result,   \* "pending", or what the call produced
    \* ---- mask_email_keep_domain applied to injected inputs
    email,          \* the email argument (text or None)
    masked,         \* None, or the text the call returned
    srcName,        \* the local part email was written from (the whole text
                    \* when it has no "@")
    srcDomain,      \* the domain email was written from, or None without "@"
    \* ---- build_accounts_from_env
    batch,          \* os.getenv("KATABUMP_BATCH") (text; <<>> when unset)
    lines,          \* batch.splitlines()
    idx,            \* enumerate index of the next line (start=1)
    accounts,       \* the accounts list
    srcLine,        \* for each appended account, the idx of the line it came from
    parse_error,    \* "none" or the RuntimeError raised
    \* ---- main
    pc,             \* position of main
    i,              \* enumerate index of the current account (start=1)
    ok, fail, skip, not_yet,
    tg_dests,       \* set of (token, chat)
    msg,            \* the per-account message built for account i, or NoMsg
    summary_todo,   \* the part of sorted(tg_dests) still to be iterated
    posts,          \* every requests.post made, in order
    handled,        \* the status of every outcome main has received, in order
    invoked,        \* the arguments of every renew_one_account call, in order
    interrupted,    \* KeyboardInterrupt was delivered
    \* ---- renew_one_account
    rpc,            \* position inside renew_one_account
    expiry_before,
    expiry_after,
    alert_text_raw,
    pending,        \* how the with-block is being left: return value or exception
    outcome,        \* the tuple returned to main
    session_open,   \* number of browser sessions currently held
    acquired,       \* sessions acquired by the current invocation
    released,       \* sessions released by the current invocation
    trail,          \* what the current invocation did on the page: a subset of
                    \* {"renew_click", "submit", "banner_visible",
                    \* "banner_absent"}
    clock           \* the instant read by datetime.now in should_renew_utc0

dateVars  == <<expiry_str, now_utc, srcDate, renew_result>>
maskVars  == <<email, masked, srcName, srcDomain>>
parseVars == <<batch, lines, idx, accounts, srcLine, parse_error>>
mainVars  == <<i, ok, fail, skip, not_yet, tg_dests, msg, summary_todo, posts,
               handled, invoked, interrupted>>
runVars   == <<rpc, expiry_before, expiry_after, alert_text_raw, pending, outcome,
               session_open, acquired, released, trail, clock>>
vars == <<dateVars, maskVars, parseVars, pc, mainVars, runVars>>

-----------------------------------------------------------------------------
(* Bounds *)

\* calendar years of the injected dates: 2024 .. 2024 + YearSpan (and year 1)
YearSpan == 1
\* number of lines of a batch given to the parser alone
MaxLines == 2
\* number of lines of a batch given to main
MaxAccounts == 2
\* length of the longest local part given to mask_email_keep_domain
MaxLocal == 4

-----------------------------------------------------------------------------
(* Text *)

\* Python None where a text is expected: a value no text equals
None == <<"None">>

\* truth value of an Optional[str]
Truthy(x) == x # None /\ x # <<>>

Digits == {"0", "1", "2", "3", "4", "5", "6", "7", "8", "9"}

DigitVal(c) ==
    CASE c = "0" -> 0 [] c = "1" -> 1 [] c = "2" -> 2 [] c = "3" -> 3
      [] c = "4" -> 4 [] c = "5" -> 5 [] c = "6" -> 6 [] c = "7" -> 7
      [] c = "8" -> 8 [] c = "9" -> 9

DigitChar(n) ==
    CASE n = 0 -> "0" [] n = 1 -> "1" [] n = 2 -> "2" [] n = 3 -> "3"
      [] n = 4 -> "4" [] n = 5 -> "5" [] n = 6 -> "6" [] n = 7 -> "7"
      [] n = 8 -> "8" [] n = 9 -> "9"

\* str.isspace for the characters the model uses
IsSpace(c) == c \in {" ", "\n", "\t"}

SetMin(S) == CHOOSE x \in S : \A y \in S : x <= y
SetMax(S) == CHOOSE x \in S : \A y \in S : x >= y

\* str.strip()
Strip(s) ==
    LET keep == {k \in 1..Len(s) : ~IsSpace(s[k])}
    IN  IF keep = {} THEN <<>> ELSE SubSeq(s, SetMin(keep), SetMax(keep))

\* str.split(sep) for a one-character separator: always at least one part
RECURSIVE Split(_, _)
Split(s, sep) ==
    LET at == {k \in 1..Len(s) : s[k] = sep}
    IN  IF at = {} THEN <<s>>
        ELSE LET k == SetMin(at)
             IN  <<SubSeq(s, 1, k - 1)>> \o Split(SubSeq(s, k + 1, Len(s)), sep)

\* sep.join(parts)
RECURSIVE Join(_, _)
Join(parts, sep) ==
    IF Len(parts) = 0 THEN <<>>
    ELSE IF Len(parts) = 1 THEN parts[1]
    ELSE parts[1] \o <<sep>> \o Join(Tail(parts), sep)

-----------------------------------------------------------------------------
(* Calendar arithmetic of datetime *)

IsLeap(y) == y % 4 = 0 /\ (y % 100 # 0 \/ y % 400 = 0)

DaysInMonth(y, m) ==
    IF m = 2 THEN (IF IsLeap(y) THEN 29 ELSE 28)
    ELSE IF m \in {4, 6, 9, 11} THEN 30 ELSE 31

DaysBeforeYear(y) ==
    LET p == y - 1 IN p * 365 + (p \div 4) - (p \div 100) + (p \div 400)

RECURSIVE DaysBeforeMonth(_, _)
DaysBeforeMonth(y, m) ==
    IF m = 1 THEN 0 ELSE DaysBeforeMonth(y, m - 1) + DaysInMonth(y, m - 1)

\* date.toordinal(): 0001-01-01 is day 1
Ymd2Ord(y, m, d) == DaysBeforeYear(y) + DaysBeforeMonth(y, m) + d

\* date.fromordinal(n), n >= 1
Ord2Ymd(n) ==
    LET n0   == n - 1
        n400 == n0 \div 146097
        r400 == n0 % 146097
        n100 == r400 \div 36524
        r100 == r400 % 36524
        n4   == r100 \div 1461
        r4   == r100 % 1461
        n1   == r4 \div 365
        r1   == r4 % 365
        year == n400 * 400 + 1 + n100 * 100 + n4 * 4 + n1
        leap == n1 = 3 /\ (n4 # 24 \/ n100 = 3)
        m0   == (r1 + 50) \div 32
        pre0 == DaysBeforeMonth(IF leap THEN 4 ELSE 1, m0)
        back == pre0 > r1
        mon  == IF back THEN m0 - 1 ELSE m0
        pre  == IF back THEN pre0 - DaysInMonth(IF leap THEN 4 ELSE 1, m0 - 1)
                ELSE pre0
    IN  IF n1 = 4 \/ n100 = 4
        THEN [year |-> year - 1, month |-> 12, day |-> 31]
        ELSE [year |-> year, month |-> mon, day |-> r1 - pre + 1]

\* comparison of two datetimes that share tzinfo: field by field
DtTuple(t) == <<t.year, t.month, t.day, t.hour, t.minute, t.second>>

RECURSIVE LexGeq(_, _)
LexGeq(a, b) ==
    IF Len(a) = 0 THEN TRUE
    ELSE IF a[1] # b[1] THEN a[1] > b[1]
    ELSE LexGeq(Tail(a), Tail(b))

-----------------------------------------------------------------------------
(* datetime.strptime(text, "%Y-%m-%d").date() *)

\* (?P<Y>\d\d\d\d)
MatchY(p) == Len(p) = 4 /\ \A k \in 1..4 : p[k] \in Digits

\* (?P<m>1[0-2]|0[1-9]|[1-9])
MatchM(p) ==
    \/ Len(p) = 2 /\ p[1] = "1" /\ p[2] \in {"0", "1", "2"}
    \/ Len(p) = 2 /\ p[1] = "0" /\ p[2] \in Digits \ {"0"}
    \/ Len(p) = 1 /\ p[1] \in Digits \ {"0"}

\* (?P<d>3[0-1]|[1-2]\d|0[1-9]|[1-9]| [1-9])
MatchD(p) ==
    \/ Len(p) = 2 /\ p[1] = "3" /\ p[2] \in {"0", "1"}
    \/ Len(p) = 2 /\ p[1] \in {"1", "2"} /\ p[2] \in Digits
    \/ Len(p) = 2 /\ p[1] = "0" /\ p[2] \in Digits \ {"0"}
    \/ Len(p) = 1 /\ p[1] \in Digits \ {"0"}
    \/ Len(p) = 2 /\ p[1] = " " /\ p[2] \in Digits \ {"0"}

\* int() of a matched group
RECURSIVE ToInt(_)
ToInt(p) ==
    IF Len(p) = 0 THEN 0
    ELSE IF p[Len(p)] = " " THEN ToInt(SubSeq(p, 1, Len(p) - 1))
    ELSE 10 * ToInt(SubSeq(p, 1, Len(p) - 1)) + DigitVal(p[Len(p)])

NoDate == [valid |-> FALSE]

\* no datetime
NoInstant == [unset |-> TRUE]

\* a parser that matches the pattern and never checks the day against the
\* month
StrptimeNoCalendar(text) ==
    LET parts == Split(text, "-")
    IN  IF Len(parts) = 3 /\ MatchY(parts[1]) /\ MatchM(parts[2]) /\ MatchD(parts[3])
        THEN [valid |-> TRUE, year |-> SetMax({1, ToInt(parts[1])}),
              month |-> ToInt(parts[2]), day |-> ToInt(parts[3])]
        ELSE NoDate

\* the parsed date, or NoDate where strptime raises ValueError
Strptime(text) ==
    LET parts == Split(text, "-")
    IN  IF Len(parts) = 3 /\ MatchY(parts[1]) /\ MatchM(parts[2]) /\ MatchD(parts[3])
        THEN LET y == ToInt(parts[1])
                 m == ToInt(parts[2])
                 d == ToInt(parts[3])
             IN  IF y >= 1 /\ d <= DaysInMonth(y, m)
                 THEN [valid |-> TRUE, year |-> y, month |-> m, day |-> d]
                 ELSE NoDate
        ELSE NoDate

-----------------------------------------------------------------------------
(* should_renew_utc0 *)

\* datetime(y, m, d, tzinfo=utc) - timedelta(days=1), which overflows below
\* date.min
RenewOpenUtc(d) ==
    LET n == Ymd2Ord(d.year, d.month, d.day) - 1
    IN  IF n < 1
        THEN [overflow |-> TRUE]
        ELSE LET p == Ord2Ymd(n)
             IN  [overflow |-> FALSE, year |-> p.year, month |-> p.month,
                  day |-> p.day, hour |-> 0, minute |-> 0, second |-> 0]

\* the comparison with its operands exchanged
WindowReachedFlipped(now, open) == LexGeq(DtTuple(open), DtTuple(now))

\* now_utc >= renew_open_utc
WindowReached(now, open) == LexGeq(DtTuple(now), DtTuple(open))

\* "True", "False", or the exception that leaves the function
should_renew_utc0(text, now) ==
    IF ~Truthy(text) THEN "False"
    ELSE LET d == Strptime(Strip(text))
         IN  IF ~d.valid THEN "False"
             ELSE LET open == RenewOpenUtc(d)
                  IN  IF open.overflow THEN "OverflowError"
                      ELSE IF WindowReached(now, open) THEN "True"
                      ELSE "False"

\* ---- inputs

Years == {1} \cup (2024 .. 2024 + YearSpan)

CivilDates ==
    {[valid |-> TRUE, year |-> y, month |-> m, day |-> d] :
        y \in Years, m \in {1, 2, 3, 12}, d \in {1, 2, 28, 29, 30, 31}}

ValidDates == {d \in CivilDates : d.day <= DaysInMonth(d.year, d.month)}

Instants ==
    {[year |-> d.year, month |-> d.month, day |-> d.day,
      hour |-> t[1], minute |-> t[2], second |-> t[3]] :
        d \in ValidDates, t \in {<<0, 0, 0>>, <<23, 59, 59>>}}

\* n written with at least w digits
RECURSIVE Pad(_, _)
Pad(n, w) ==
    IF n < 10 /\ w <= 1 THEN <<DigitChar(n)>>
    ELSE Pad(n \div 10, w - 1) \o <<DigitChar(n % 10)>>

\* ways a page may write a calendar date so that "%Y-%m-%d" reads it
DateStyles == {"padded", "bare", "spaced"}

FormatDate(d, style) ==
    CASE style = "padded" ->
            Pad(d.year, 4) \o <<"-">> \o Pad(d.month, 2) \o <<"-">> \o Pad(d.day, 2)
      [] style = "bare" ->
            Pad(d.year, 4) \o <<"-">> \o Pad(d.month, 1) \o <<"-">> \o Pad(d.day, 1)
      [] style = "spaced" ->
            <<" ">> \o Pad(d.year, 4) \o <<"-">> \o Pad(d.month, 2) \o <<"-">>
                \o Pad(d.day, 2) \o <<"\n">>

\* texts that are empty or no calendar date in YYYY-MM-DD form
MalformedExpiry ==
    { <<>>,
      None,
      <<" ">>,
      <<"2","0","2","5","-","1","3","-","4","0">>,
      <<"2","0","2","5","-","0","2","-","3","0">>,
      <<"2","0","2","5","-","0","2","-","2","9">>,
      <<"2","0","2","5","-","0","4","-","3","1">>,
      <<"2","0","2","5","-","0","0","-","1","0">>,
      <<"2","0","2","5","-","0","6","-","0","0">>,
      <<"2","0","2","5","-","0","6","-","3","2">>,
      <<"0","0","0","0","-","0","1","-","0","1">>,
      <<"2","0","2","5","-","0","6">>,
      <<"2","0","2","5","-","0","6","-","1","0","-","0","1">>,
      <<"2","0","2","5","-","0","6","-","1","0","0">>,
      <<"2","0","2","5","-","0","6","-","1","0","x">>,
      <<"2","0","2","5","-"," ","6","-","1","0">>,
      <<"2","5","-","0","6","-","1","0">>,
      <<"2","0","2","5","/","0","6","/","1","0">>,
      <<"2","0","2","5","0","6","1","0">>,
      <<"N","/","A">> }

IdleDate ==
    /\ expiry_str = <<>>
    /\ now_utc = NoInstant
    /\ srcDate = NoDate
    /\ renew_result = "idle"

IdleMask ==
    /\ email = <<>>
    /\ masked = None
    /\ srcName = <<>>
    /\ srcDomain = None

InitDate ==
    /\ now_utc \in Instants
    /\ \/ \E d \in ValidDates, st \in DateStyles :
            /\ srcDate = d
            /\ expiry_str = FormatDate(d, st)
       \/ /\ srcDate = NoDate
          /\ expiry_str \in MalformedExpiry
    /\ renew_result = "pending"

\* the call should_renew_utc0(expiry_str, now_utc)
ShouldRenewCall ==
    /\ renew_result = "pending"
    /\ renew_result' = should_renew_utc0(expiry_str, now_utc)
    /\ UNCHANGED <<expiry_str, now_utc, srcDate, maskVars, parseVars, pc, mainVars,
                   runVars>>

-----------------------------------------------------------------------------
(* Specification of should_renew_utc0 on injected inputs *)

IdleParse ==
    /\ batch = <<>>
    /\ lines = <<>>
    /\ idx = 1
    /\ accounts = <<>>
    /\ srcLine = <<>>
    /\ parse_error = "none"

NoMsg == [kind |-> "none"]
NoOutcome == <<"none", None, None>>
NoPending == [kind |-> "none"]

IdleMain ==
    /\ i = 0
    /\ ok = 0 /\ fail = 0 /\ skip = 0 /\ not_yet = 0
    /\ tg_dests = {}
    /\ msg = NoMsg
    /\ summary_todo = <<>>
    /\ posts = <<>>
    /\ handled = <<>>
    /\ invoked = <<>>
    /\ interrupted = FALSE

IdleRun ==
    /\ rpc = "idle"
    /\ expiry_before = None
    /\ expiry_after = None
    /\ alert_text_raw = None
    /\ pending = NoPending
    /\ outcome = NoOutcome
    /\ session_open = 0
    /\ acquired = 0
    /\ released = 0
    /\ trail = {}
    /\ clock = NoInstant

DateInit == InitDate /\ IdleMask /\ IdleParse /\ pc = "idle" /\ IdleMain /\ IdleRun

DateNext == ShouldRenewCall

SpecDate == DateInit /\ [][DateNext]_vars

\* the calendar day after (y, m, d), by the calendar's month lengths
NextCivilDay(t) ==
    IF t.day < DaysInMonth(t.year, t.month)
    THEN <<t.year, t.month, t.day + 1>>
    ELSE IF t.month < 12 THEN <<t.year, t.month + 1, 1>>
    ELSE <<t.year + 1, 1, 1>>

\* t >= (d minus 1 day) at 00:00 UTC, that is: the day after t's day is not
\* before d
AtOrAfterDayBefore(t, d) == LexGeq(NextCivilDay(t), <<d.year, d.month, d.day>>)

\* C1: for every valid YYYY-MM-DD expiry date d and every instant t,
\* should_renew_utc0(d, t) returns true if and only if
\* t >= (d minus 1 day) at 00:00 UTC.
C1_WindowIff ==
    (renew_result # "pending" /\ srcDate.valid) =>
        /\ renew_result \in {"True", "False"}
        /\ (renew_result = "True") <=> AtOrAfterDayBefore(now_utc, srcDate)

\* C1, away from date.min: the same equivalence for every valid date whose
\* day before exists in datetime's range
C1_WindowIffAboveDateMin ==
    (renew_result # "pending" /\ srcDate.valid
        /\ <<srcDate.year, srcDate.month, srcDate.day>> # <<1, 1, 1>>) =>
        /\ renew_result \in {"True", "False"}
        /\ (renew_result = "True") <=> AtOrAfterDayBefore(now_utc, srcDate)

\* the call returned False one second before the window of a valid date opens
C1_ClosedJustBefore ==
    /\ renew_result = "False"
    /\ srcDate.valid
    /\ now_utc.hour = 23 /\ now_utc.minute = 59 /\ now_utc.second = 59
    /\ LET t1 == NextCivilDay(now_utc)
       IN  <<srcDate.year, srcDate.month, srcDate.day>> =
               NextCivilDay([year |-> t1[1], month |-> t1[2], day |-> t1[3]])

-----------------------------------------------------------------------------
(* build_accounts_from_env *)

\* (x or "") for an Optional[str]
OrEmpty(x) == IF Truthy(x) THEN x ELSE <<>>

\* str.splitlines(): no trailing empty line after a final line break
SplitLines(s) ==
    IF s = <<>> THEN <<>>
    ELSE LET parts == Split(s, "\n")
         IN  IF parts[Len(parts)] = <<>> THEN SubSeq(parts, 1, Len(parts) - 1)
             ELSE parts

\* [p.strip() for p in line.split(",")]
Parts(line) ==
    LET raw == Split(line, ",") IN [k \in 1..Len(raw) |-> Strip(raw[k])]

\* line.startswith("#")
IsComment(line) == Len(line) > 0 /\ line[1] = "#"

\* a parser that takes every line with at least three fields
FieldCountAtLeast3(n) == n >= 3

\* len(parts) in (3, 5)
FieldCountOk(n) == n \in {3, 5}

\* the dict appended for a line whose parts passed the checks
AccountOf(parts) ==
    [email     |-> parts[1],
     password  |-> parts[2],
     server_id |-> parts[3],
     tg_token  |-> IF Len(parts) = 5 THEN parts[4] ELSE <<>>,
     tg_chat   |-> IF Len(parts) = 5 THEN parts[5] ELSE <<>>]

\* lines 150-152: read and trim the variable; raise when it is empty
ParseStart ==
    /\ pc = "parse_start"
    /\ LET b == Strip(OrEmpty(batch))
       IN  IF b = <<>>
           THEN /\ parse_error' = "missing"
                /\ pc' = "config_error"
                /\ UNCHANGED <<lines, idx>>
           ELSE /\ lines' = SplitLines(b)
                /\ idx' = 1
                /\ pc' = "parse_line"
                /\ UNCHANGED parse_error
    /\ UNCHANGED <<batch, accounts, srcLine, dateVars, maskVars, mainVars, runVars>>

\* lines 155-180: one iteration of the loop over the lines
ParseLine ==
    /\ pc = "parse_line"
    /\ idx <= Len(lines)
    /\ LET line  == Strip(lines[idx])
           parts == Parts(line)
       IN  IF line = <<>> \/ IsComment(line)
           THEN UNCHANGED <<accounts, srcLine>>
           ELSE IF ~FieldCountOk(Len(parts))
           THEN UNCHANGED <<accounts, srcLine>>
           ELSE IF parts[1] = <<>> \/ parts[2] = <<>> \/ parts[3] = <<>>
           THEN UNCHANGED <<accounts, srcLine>>
           ELSE /\ accounts' = Append(accounts, AccountOf(parts))
                /\ srcLine' = Append(srcLine, idx)
    /\ idx' = idx + 1
    /\ UNCHANGED <<batch, lines, parse_error, pc, dateVars, maskVars, mainVars, runVars>>

\* a parser that returns the list even when it is empty
NeverEmpty(accs) == FALSE

\* line 182: not accounts
NoAccounts(accs) == accs = <<>>

\* lines 182-185: raise when no account was collected, else return the list
ParseEnd ==
    /\ pc = "parse_line"
    /\ idx > Len(lines)
    /\ IF NoAccounts(accounts)
       THEN /\ parse_error' = "no_valid_line"
            /\ pc' = "config_error"
       ELSE /\ pc' = "parsed"
            /\ UNCHANGED parse_error
    /\ UNCHANGED <<batch, lines, idx, accounts, srcLine, dateVars, maskVars, mainVars, runVars>>

\* ---- inputs of the parser alone

ParseLines ==
    { <<"a", ",", "p", ",", "1">>,
      <<" ", "a", " ", ",", "p", "\t", ",", " ", "1", " ">>,
      <<"b", ",", "q", ",", "2", ",", "T", ",", "C">>,
      <<"b", ",", "q", ",", "2", ",", "T", ",">>,
      <<"b", ",", "q", ",", "2", ",", ",", "C">>,
      <<"b", ",", "q", ",", "2", ",", " ", ",", " ">>,
      <<"a", ",", "p", ",", "1", ",", "T">>,
      <<"a", ",", "p">>,
      <<"a">>,
      <<"a", ",", "p", ",", "1", ",", "T", ",", "C", ",", "x">>,
      <<"a", ",", ",", "1">>,
      <<",", "p", ",", "1">>,
      <<"a", ",", "p", ",", " ">>,
      <<"#", "a", ",", "p", ",", "1">>,
      <<" ", "#">>,
      <<" ">>,
      <<>> }

RECURSIVE SeqsUpTo(_, _)
SeqsUpTo(S, n) ==
    IF n = 0 THEN {<<>>}
    ELSE LET shorter == SeqsUpTo(S, n - 1)
         IN  shorter \cup {Append(q, x) : q \in {r \in shorter : Len(r) = n - 1}, x \in S}

ParseBatches ==
    {None} \cup {Join(ls, "\n") : ls \in SeqsUpTo(ParseLines, MaxLines)}
           \cup {Join(ls, "\n") \o <<"\n">> : ls \in SeqsUpTo(ParseLines, 1)}

InitParse ==
    /\ batch \in ParseBatches
    /\ lines = <<>>
    /\ idx = 1
    /\ accounts = <<>>
    /\ srcLine = <<>>
    /\ parse_error = "none"

ParseInit == IdleDate /\ IdleMask /\ InitParse /\ pc = "parse_start" /\ IdleMain /\ IdleRun

ParseNext == ParseStart \/ ParseLine \/ ParseEnd

SpecParse == ParseInit /\ [][ParseNext]_vars

\* number of comma-separated fields of a line
FieldCount(line) == Cardinality({k \in 1..Len(line) : line[k] = ","}) + 1

\* line j is neither blank nor a comment and has exactly 3 or exactly 5 fields
Acceptable(j) ==
    LET line == Strip(lines[j])
    IN  /\ line # <<>>
        /\ line[1] # "#"
        /\ FieldCount(line) \in {3, 5}

\* line j is acceptable and its three mandatory fields are non-empty
ValidLine(j) ==
    /\ Acceptable(j)
    /\ \A f \in 1..3 : Parts(Strip(lines[j]))[f] # <<>>

\* C7: every returned record comes from a non-blank, non-comment line with
\* exactly 3 or exactly 5 comma-separated fields (never from a 4-field line),
\* records appear in input-line order, and every valid line already visited
\* has its record whatever malformed lines surround it.
C7_OnlyThreeOrFiveFields ==
    /\ Len(srcLine) = Len(accounts)
    /\ \A k \in 1..Len(accounts) :
          /\ srcLine[k] \in 1..Len(lines)
          /\ srcLine[k] < idx
          /\ Acceptable(srcLine[k])
          /\ LET parts == Parts(Strip(lines[srcLine[k]]))
             IN  /\ accounts[k].email = parts[1]
                 /\ accounts[k].password = parts[2]
                 /\ accounts[k].server_id = parts[3]
    /\ \A k \in 1..(Len(srcLine) - 1) : srcLine[k] < srcLine[k + 1]
    /\ \A j \in 1..Len(lines) :
          (j < idx /\ ValidLine(j)) => \E k \in 1..Len(srcLine) : srcLine[k] = j

\* the parser returned a record of a valid line that follows a 4-field line
C7_ValidAfterFourFields ==
    /\ pc = "parsed"
    /\ \E j \in 1..Len(lines), k \in 1..Len(srcLine) :
          /\ FieldCount(Strip(lines[j])) = 4
          /\ srcLine[k] > j

\* C8: every returned record has email, password and serverId non-empty after
\* trimming, and notifyToken and notifyChat either both empty or both
\* non-empty.
C8_RecordInvariants ==
    \A k \in 1..Len(accounts) :
        /\ Strip(accounts[k].email) # <<>>
        /\ Strip(accounts[k].password) # <<>>
        /\ Strip(accounts[k].server_id) # <<>>
        /\ (accounts[k].tg_token = <<>>) <=> (accounts[k].tg_chat = <<>>)

\* C8, the part the parser enforces: the three mandatory fields are non-empty
C8_MandatoryFieldsNonEmpty ==
    \A k \in 1..Len(accounts) :
        /\ Strip(accounts[k].email) # <<>>
        /\ Strip(accounts[k].password) # <<>>
        /\ Strip(accounts[k].server_id) # <<>>

-----------------------------------------------------------------------------
(* mask_email_keep_domain *)

\* "*" * n
RECURSIVE Stars(_)
Stars(n) == IF n <= 0 THEN <<>> ELSE <<"*">> \o Stars(n - 1)

\* a mask that hides every character but the first
MaskAllButFirst(name) ==
    IF Len(name) <= 1 THEN (IF name = <<>> THEN <<"*">> ELSE name)
    ELSE <<name[1]>> \o Stars(Len(name) - 1)

\* lines 46-51: the masked local part
NameMask(name) ==
    IF Len(name) <= 1 THEN (IF name = <<>> THEN <<"*">> ELSE name)
    ELSE IF Len(name) = 2 THEN <<name[1], name[2]>>
    ELSE <<name[1]>> \o Stars(Len(name) - 2) \o <<name[Len(name)]>>

\* lines 37-53; e.split("@", 1) cuts at the first "@"
mask_email_keep_domain(em) ==
    LET e == Strip(OrEmpty(em))
        ats == {k \in 1..Len(e) : e[k] = "@"}
    IN  IF ats = {} THEN <<"*", "*", "*">>
        ELSE LET at == SetMin(ats)
                 name == SubSeq(e, 1, at - 1)
                 domain == SubSeq(e, at + 1, Len(e))
             IN  NameMask(name) \o <<"@">> \o domain

\* ---- inputs

LocalParts == SeqsUpTo({"a", "b"}, MaxLocal)

Domains == { <<"x", ".", "c">>, <<"x", "@", "y">>, <<"x", " ", "y">>, <<>> }

\* whitespace put before and after the address
Paddings == { <<<<>>, <<>>>>, <<<<" ">>, <<>>>>, <<<<>>, <<"\n">>>>,
              <<<<"\t">>, <<" ", " ">>>> }

\* texts without "@"
NoAtTexts == { <<>>, <<" ">>, <<"a">>, <<"a", "b", "c">>, <<"a", ".", "c">> }

InitMask ==
    /\ masked = None
    /\ \/ \E n \in LocalParts, d \in Domains, pad \in Paddings :
            /\ srcName = n
            /\ srcDomain = d
            /\ email = pad[1] \o n \o <<"@">> \o d \o pad[2]
       \/ /\ srcDomain = None
          /\ \/ email = None /\ srcName = <<>>
             \/ email \in NoAtTexts /\ srcName = email

\* the call mask_email_keep_domain(email)
MaskCall ==
    /\ masked = None
    /\ masked' = mask_email_keep_domain(email)
    /\ UNCHANGED <<email, srcName, srcDomain, dateVars, parseVars, pc, mainVars,
                   runVars>>

MaskInit == IdleDate /\ InitMask /\ IdleParse /\ pc = "idle" /\ IdleMain /\ IdleRun

MaskNext == MaskCall

SpecMask == MaskInit /\ [][MaskNext]_vars

-----------------------------------------------------------------------------
(* Text operations of the alert check (lines 290-296) *)

UpperCase == <<"A", "B", "C", "D", "E", "F", "G", "H", "I", "J", "K", "L", "M",
               "N", "O", "P", "Q", "R", "S", "T", "U", "V", "W", "X", "Y", "Z">>
LowerCase == <<"a", "b", "c", "d", "e", "f", "g", "h", "i", "j", "k", "l", "m",
               "n", "o", "p", "q", "r", "s", "t", "u", "v", "w", "x", "y", "z">>

\* str.lower()
Lower(s) ==
    [k \in 1..Len(s) |->
        IF \E u \in 1..26 : UpperCase[u] = s[k]
        THEN LowerCase[CHOOSE u \in 1..26 : UpperCase[u] = s[k]]
        ELSE s[k]]

RECURSIVE LStrip(_)
LStrip(s) == IF s # <<>> /\ IsSpace(s[1]) THEN LStrip(Tail(s)) ELSE s

\* re.sub(r"\s+", " ", s)
RECURSIVE CollapseWhitespace(_)
CollapseWhitespace(s) ==
    IF s = <<>> THEN <<>>
    ELSE IF IsSpace(s[1]) THEN <<" ">> \o CollapseWhitespace(LStrip(s))
    ELSE <<s[1]>> \o CollapseWhitespace(Tail(s))

\* s.replace(c, "")
RECURSIVE RemoveChar(_, _)
RemoveChar(s, c) ==
    IF s = <<>> THEN <<>>
    ELSE IF s[1] = c THEN RemoveChar(Tail(s), c)
    ELSE <<s[1]>> \o RemoveChar(Tail(s), c)

\* pat in s
Contains(s, pat) ==
    \E k \in 1..(Len(s) - Len(pat) + 1) : SubSeq(s, k, k + Len(pat) - 1) = pat

NotYetPhrase == <<"r", "e", "n", "e", "w", " ", "y", "o", "u", "r", " ", "s", "e", "r", "v", "e", "r", " ", "y", "e", "t">>

\* line 295
clean_text(raw) == Strip(RemoveChar(CollapseWhitespace(raw), "×"))

\* a check that looks for the phrase in the raw banner text
IsNotYetRaw(raw) == Contains(raw, NotYetPhrase)

\* line 296
IsNotYet(raw) == Contains(Lower(clean_text(raw)), NotYetPhrase)

-----------------------------------------------------------------------------
(* renew_one_account *)

\* a text that is only carried, never read character by character
Word(w) == <<w>>

ExcText == Word("str(e)")

Statuses == {"SKIP", "OK", "OK_NOT_YET", "FAIL"}

\* what the page shows as Expiry
PageExpiryTexts ==
    { <<"2", "0", "2", "5", "-", "0", "6", "-", "1", "0", "\n">>,
      <<"2", "0", "2", "5", "-", "0", "6", "-", "1", "2">>,
      <<"N", "/", "A">>,
      <<"0", "0", "0", "1", "-", "0", "1", "-", "0", "1">>,
      <<" ">>,
      <<>> }

\* what the alert banner reads
AlertTexts ==
    { <<"×", "\n", "C", "a", "n", "'", "t", " ", "r", "e", "n", "e", "w", " ", "y", "o", "u", "r", " ", "s", "e", "r", "v", "e", "r", " ", "y", "e", "t", "!">>,
      <<"R", "E", "N", "E", "W", " ", " ", "Y", "O", "U", "R", "\n", "S", "E", "R", "V", "E", "R", "\t", "Y", "E", "T">>,
      <<"r", "e", "n", "e", "w", " ", "y", "o", "u", "r", " ", "s", "e", "r", "×", "v", "e", "r", " ", "y", "e", "t">>,
      <<"r", "e", "n", "e", "w", " ", "×", " ", "y", "o", "u", "r", " ", "s", "e", "r", "v", "e", "r", " ", "y", "e", "t">>,
      <<" ", "E", "r", "r", " ">>,
      <<"r", "e", "n", "e", "w", " ", "y", "o", "u", "r", " ", "s", "e", "r", "v", "e", "r">>,
      <<>>,
      None }

\* the instants datetime.now may return
Clocks ==
    { [year |-> 2025, month |-> 6, day |-> 8, hour |-> 23, minute |-> 59, second |-> 59],
      [year |-> 2025, month |-> 6, day |-> 9, hour |-> 0, minute |-> 0, second |-> 0] }

\* sb.get_text raised
Raised == Word("raised")

\* get_expiry (lines 98-109): visible is "yes", "no" or "raise"; text is what
\* sb.get_text returns, or Raised
get_expiry(visible, text) ==
    IF visible = "yes" /\ text # Raised /\ Truthy(text) THEN Strip(text) ELSE None

\* every value get_expiry can return
ExpiryReadings ==
    {get_expiry(v, t) : v \in {"yes", "no", "raise"},
                        t \in PageExpiryTexts \cup {None, Raised}}

\* an exception reaching the except clause of lines 317-321 without any
\* handler: it leaves renew_one_account
Propagate(before) == [to |-> "escaped", outcome |-> <<"none", None, None>>]

\* lines 317-321: except Exception -> return "FAIL", expiry_before, str(e)
ExceptClause(before) == [to |-> "returned", outcome |-> <<"FAIL", before, ExcText>>]

\* a session that is closed only where the block runs to a return
ReleasedOnReturnOnly(kind) == IF kind = "return" THEN 1 ELSE 0

\* line 198: leaving the with block closes the session, on a return and on an
\* exception alike (closing is taken to complete without raising)
ReleasedOnExit(kind) == 1

NotRun == <<dateVars, maskVars, parseVars, pc, mainVars>>

InRun(p) == pc = "renew" /\ rpc = p

\* continue with the next step
Go(p) == rpc' = p /\ UNCHANGED <<pending, outcome>>

\* an exception raised inside the with block
Raise == rpc' = "exit" /\ pending' = [kind |-> "raise"] /\ UNCHANGED outcome

\* a return statement inside the with block
Return(v) == rpc' = "exit" /\ pending' = [kind |-> "return", value |-> v]
                /\ UNCHANGED outcome

runData == <<expiry_before, expiry_after, alert_text_raw, clock>>
runRes  == <<session_open, acquired, released>>

\* line 198, SB(...).__enter__: the browser starts, or the start raises and
\* the except clause of line 317 returns FAIL
StartSession ==
    /\ InRun("start")
    /\ \/ /\ session_open' = session_open + 1
          /\ acquired' = acquired + 1
          /\ Go("login_open")
          /\ UNCHANGED released
       \/ /\ rpc' = ExceptClause(expiry_before).to
          /\ outcome' = ExceptClause(expiry_before).outcome
          /\ UNCHANGED <<pending, runRes>>
    /\ UNCHANGED <<runData, trail, NotRun>>

\* line 204; a step inside the try of lines 203-223 succeeds, or it raises and
\* the inner except clause (line 221) resumes at the login check
LoginOpen ==
    /\ InRun("login_open")
    /\ \/ Go("login_visible")
       \/ Go("check_login")
    /\ UNCHANGED <<runData, runRes, trail, NotRun>>

\* line 208: the login form is visible, or is not, or the query raises
LoginFormVisible ==
    /\ InRun("login_visible")
    /\ \/ Go("login_type_email")
       \/ Go("check_login")
    /\ UNCHANGED <<runData, runRes, trail, NotRun>>

\* line 209
LoginTypeEmail ==
    /\ InRun("login_type_email")
    /\ \/ Go("login_type_password")
       \/ Go("check_login")
    /\ UNCHANGED <<runData, runRes, trail, NotRun>>

\* line 210
LoginTypePassword ==
    /\ InRun("login_type_password")
    /\ \/ Go("login_cf_visible")
       \/ Go("check_login")
    /\ UNCHANGED <<runData, runRes, trail, NotRun>>

\* line 213: a challenge frame is visible, or is not, or the query raises
LoginChallengeVisible ==
    /\ InRun("login_cf_visible")
    /\ \/ Go("login_captcha")
       \/ Go("login_click")
       \/ Go("check_login")
    /\ UNCHANGED <<runData, runRes, trail, NotRun>>

\* line 215, sb.uc_gui_click_captcha()
LoginCaptcha ==
    /\ InRun("login_captcha")
    /\ \/ Go("login_click")
       \/ Go("check_login")
    /\ UNCHANGED <<runData, runRes, trail, NotRun>>

\* line 218, sb.click('button[type="submit"]')
LoginClick ==
    /\ InRun("login_click")
    /\ \/ Go("login_wait")
       \/ Go("check_login")
    /\ UNCHANGED <<runData, runRes, trail, NotRun>>

\* line 219
LoginWait ==
    /\ InRun("login_wait")
    /\ \/ Go("check_login")
       \/ Go("check_login")
    /\ UNCHANGED <<runData, runRes, trail, NotRun>>

\* lines 226-229
CheckLogin ==
    /\ InRun("check_login")
    /\ \/ Return(<<"FAIL", None, Word("Login Failed (Page Stuck)")>>)
       \/ Go("open_server")
       \/ Raise
    /\ UNCHANGED <<runData, runRes, trail, NotRun>>

\* line 233; outside an inner try a step succeeds or raises
OpenServer ==
    /\ InRun("open_server")
    /\ \/ Go("wait_server")
       \/ Raise
    /\ UNCHANGED <<runData, runRes, trail, NotRun>>

\* line 234
WaitServer ==
    /\ InRun("wait_server")
    /\ \/ Go("page_title")
       \/ Raise
    /\ UNCHANGED <<runData, runRes, trail, NotRun>>

\* line 238, first operand: "404" in sb.get_page_title()
PageTitle ==
    /\ InRun("page_title")
    /\ \/ Return(<<"FAIL", None, Word("Page 404")>>)
       \/ Go("body_text")
       \/ Raise
    /\ UNCHANGED <<runData, runRes, trail, NotRun>>

\* line 238, second operand: "not found" in the body text
BodyText ==
    /\ InRun("body_text")
    /\ \/ Return(<<"FAIL", None, Word("Page 404")>>)
       \/ Go("get_expiry")
       \/ Raise
    /\ UNCHANGED <<runData, runRes, trail, NotRun>>

\* a test that only looks for None
ExpiryIsNone(r) == r = None

\* line 245: not expiry_before
ExpiryMissing(r) == ~Truthy(r)

\* lines 243-250
GetExpiryBefore ==
    /\ InRun("get_expiry")
    /\ \E r \in ExpiryReadings :
          /\ expiry_before' = r
          /\ IF ExpiryMissing(r)
             THEN Return(<<"FAIL", None, Word("Expiry Element Not Found")>>)
             ELSE Go("should_renew")
    /\ UNCHANGED <<expiry_after, alert_text_raw, clock, runRes, trail, NotRun>>

\* lines 253-257: should_renew_utc0(expiry_before) reads the clock
ShouldRenew ==
    /\ InRun("should_renew")
    /\ \E now \in Clocks :
          /\ clock' = now
          /\ LET r == should_renew_utc0(expiry_before, now)
             IN  IF r = "OverflowError" THEN Raise
                 ELSE IF r = "False" THEN Return(<<"SKIP", expiry_before, None>>)
                 ELSE Go("renew_visible")
    /\ UNCHANGED <<expiry_before, expiry_after, alert_text_raw, runRes, trail, NotRun>>

\* lines 260-263
RenewVisible ==
    /\ InRun("renew_visible")
    /\ \/ Return(<<"FAIL", expiry_before, Word("No Renew Btn")>>)
       \/ Go("renew_click")
       \/ Raise
    /\ UNCHANGED <<runData, runRes, trail, NotRun>>

\* line 265, sb.click("button:contains('Renew')")
RenewClick ==
    /\ InRun("renew_click")
    /\ trail' = trail \cup {"renew_click"}
    /\ \/ Go("modal_wait")
       \/ Raise
    /\ UNCHANGED <<runData, runRes, NotRun>>

\* line 266
ModalWait ==
    /\ InRun("modal_wait")
    /\ \/ Go("modal_cf_visible")
       \/ Raise
    /\ UNCHANGED <<runData, runRes, trail, NotRun>>

\* line 273, inside the try of lines 271-277
ModalChallengeVisible ==
    /\ InRun("modal_cf_visible")
    /\ \/ Go("modal_captcha")
       \/ Go("submit")
    /\ UNCHANGED <<runData, runRes, trail, NotRun>>

\* line 274: the click succeeds, or raises and line 276 swallows it
ModalCaptcha ==
    /\ InRun("modal_captcha")
    /\ Go("submit")
    /\ UNCHANGED <<runData, runRes, trail, NotRun>>

\* line 281, the form is submitted by script
Submit ==
    /\ InRun("submit")
    /\ trail' = trail \cup {"submit"}
    /\ \/ Go("alert_visible")
       \/ Raise
    /\ UNCHANGED <<runData, runRes, NotRun>>

\* line 289
AlertVisible ==
    /\ InRun("alert_visible")
    /\ \/ /\ trail' = trail \cup {"banner_visible"}
          /\ Go("alert_text")
       \/ /\ trail' = trail \cup {"banner_absent"}
          /\ Go("refresh")
       \/ /\ Raise
          /\ UNCHANGED trail
    /\ UNCHANGED <<runData, runRes, NotRun>>

\* lines 290-299
AlertText ==
    /\ InRun("alert_text")
    /\ \/ \E text \in AlertTexts :
             LET raw == Strip(OrEmpty(text))
             IN  /\ alert_text_raw' = raw
                 /\ IF IsNotYet(raw)
                    THEN Return(<<"OK_NOT_YET", expiry_before, raw>>)
                    ELSE Return(<<"FAIL", expiry_before, raw>>)
       \/ /\ Raise
          /\ UNCHANGED alert_text_raw
    /\ UNCHANGED <<expiry_before, expiry_after, clock, runRes, trail, NotRun>>

\* a reload whose exception is not caught
RefreshErrorRaises(before) == [kind |-> "raise"]

\* lines 307-315: sb.refresh or the wait raised; expiry_after = None and
\* line 315 returns OK
OnRefreshError(before) == [kind |-> "return", value |-> <<"OK", before, None>>]

\* line 303
Refresh ==
    /\ InRun("refresh")
    /\ \/ Go("refresh_wait")
       \/ /\ rpc' = "exit"
          /\ pending' = OnRefreshError(expiry_before)
          /\ UNCHANGED outcome
    /\ UNCHANGED <<runData, runRes, trail, NotRun>>

\* line 304
RefreshWait ==
    /\ InRun("refresh_wait")
    /\ \/ Go("get_expiry_after")
       \/ /\ rpc' = "exit"
          /\ pending' = OnRefreshError(expiry_before)
          /\ UNCHANGED outcome
    /\ UNCHANGED <<runData, runRes, trail, NotRun>>

\* lines 306-315
GetExpiryAfter ==
    /\ InRun("get_expiry_after")
    /\ \E r \in ExpiryReadings :
          /\ expiry_after' = r
          /\ Return(<<"OK", expiry_before, r>>)
    /\ UNCHANGED <<expiry_before, alert_text_raw, clock, runRes, trail, NotRun>>

\* the with block is left (SB(...).__exit__), then the function returns the
\* value of its return statement, or line 317 catches the exception
SessionExit ==
    /\ InRun("exit")
    /\ session_open' = session_open - ReleasedOnExit(pending.kind)
    /\ released' = released + ReleasedOnExit(pending.kind)
    /\ IF pending.kind = "return"
       THEN /\ rpc' = "returned"
            /\ outcome' = pending.value
       ELSE /\ rpc' = ExceptClause(expiry_before).to
            /\ outcome' = ExceptClause(expiry_before).outcome
    /\ UNCHANGED <<pending, acquired, runData, trail, NotRun>>

RunnerNext ==
    \/ StartSession \/ LoginOpen \/ LoginFormVisible \/ LoginTypeEmail
    \/ LoginTypePassword \/ LoginChallengeVisible \/ LoginCaptcha \/ LoginClick
    \/ LoginWait \/ CheckLogin \/ OpenServer \/ WaitServer \/ PageTitle
    \/ BodyText \/ GetExpiryBefore \/ ShouldRenew \/ RenewVisible \/ RenewClick
    \/ ModalWait \/ ModalChallengeVisible \/ ModalCaptcha \/ Submit
    \/ AlertVisible \/ AlertText \/ Refresh \/ RefreshWait \/ GetExpiryAfter
    \/ SessionExit

-----------------------------------------------------------------------------
(* main *)

\* the characters of the model in code-point order
CharOrder ==
    <<"\t", "\n", " ", "!", "#", "'", ",", "-", "/">>
        \o <<"0", "1", "2", "3", "4", "5", "6", "7", "8", "9">>
        \o <<"@">> \o UpperCase \o LowerCase \o <<"×">>

CharCode(c) == CHOOSE k \in 1..Len(CharOrder) : CharOrder[k] = c

\* a < b for two str
RECURSIVE TextLess(_, _)
TextLess(a, b) ==
    IF b = <<>> THEN FALSE
    ELSE IF a = <<>> THEN TRUE
    ELSE IF a[1] # b[1] THEN CharCode(a[1]) < CharCode(b[1])
    ELSE TextLess(Tail(a), Tail(b))

\* x < y for two (token, chat) tuples
DestLess(x, y) == TextLess(x[1], y[1]) \/ (x[1] = y[1] /\ TextLess(x[2], y[2]))

\* sorted(S) for a set of (token, chat) tuples
RECURSIVE Sorted(_)
Sorted(S) ==
    IF S = {} THEN <<>>
    ELSE LET least == CHOOSE x \in S : \A y \in S \ {x} : DestLess(x, y)
         IN  <<least>> \o Sorted(S \ {least})

\* lines 342-343
TokenOf(acc) == Strip(OrEmpty(acc.tg_token))
ChatOf(acc) == Strip(OrEmpty(acc.tg_chat))

\* a loop that sends the summary once for every account that has a destination
SummaryPerAccount(dests) ==
    LET RECURSIVE Walk(_)
        Walk(k) ==
            IF k > Len(accounts) THEN <<>>
            ELSE (IF <<TokenOf(accounts[k]), ChatOf(accounts[k])>> \in dests
                  THEN <<<<TokenOf(accounts[k]), ChatOf(accounts[k])>>>>
                  ELSE <<>>) \o Walk(k + 1)
    IN  Walk(1)

\* line 399: the destinations the summary loop iterates
SummaryTargets(dests) == Sorted(dests)

\* a send that posts as soon as one of token and chat is set
tg_send_either(kind, n, token, chat) ==
    LET t == Strip(OrEmpty(token))
        c == Strip(OrEmpty(chat))
    IN  IF t = <<>> /\ c = <<>> THEN {posts}
        ELSE {Append(posts, [kind |-> kind, i |-> n, token |-> t, chat |-> c,
                             delivered |-> d]) : d \in BOOLEAN}

\* tg_send (lines 80-95): the sequences posts may become. Nothing is posted
\* unless token and chat are both non-empty; a post is delivered, or it fails
\* and line 94 swallows the failure
tg_send(kind, n, token, chat) ==
    LET t == Strip(OrEmpty(token))
        c == Strip(OrEmpty(chat))
    IN  IF t = <<>> \/ c = <<>> THEN {posts}
        ELSE {Append(posts, [kind |-> kind, i |-> n, token |-> t, chat |-> c,
                             delivered |-> d]) : d \in BOOLEAN}

\* a send whose failure is raised to the caller
SendFailureRaises(delivered) == ~delivered

\* lines 88-95: whether a post's outcome leaves tg_send as an exception; the
\* except clause of line 94 catches every failure
SendFailureEscapes(delivered) == FALSE

\* the post just appended to posts left tg_send as an exception
SendEscaped(before, after) ==
    after # before /\ SendFailureEscapes(after[Len(after)].delivered)

\* renew_open_utc_from_expiry (lines 112-118): "now" when strptime raises
\* ValueError, an overflow below date.min is not caught
renew_open_utc_from_expiry(text) ==
    LET d == Strptime(Strip(text))
    IN  IF ~d.valid THEN [overflow |-> FALSE, now |-> TRUE] ELSE RenewOpenUtc(d)

\* lines 327-329: the parser raised; main prints the error and returns
MainConfigError ==
    /\ pc = "config_error"
    /\ pc' = "exit"
    /\ UNCHANGED <<dateVars, maskVars, parseVars, mainVars, runVars>>

\* lines 331-335
SetupAndInit ==
    /\ pc = "parsed"
    /\ ok' = 0 /\ fail' = 0 /\ skip' = 0 /\ not_yet' = 0
    /\ tg_dests' = {}
    /\ i' = 0
    /\ pc' = "loop"
    /\ UNCHANGED <<msg, summary_todo, posts, handled, invoked, interrupted,
                   dateVars, maskVars, parseVars, runVars>>

\* a loop that passes the first account to every call
FirstAccount(k) == accounts[1]

\* line 338: the k-th element of enumerate(accounts, start=1)
CurrentAccount(k) == accounts[k]

\* lines 338-354: the next account is taken and renew_one_account is entered
\* (line 194 sets expiry_before = None)
LoopHead ==
    /\ pc = "loop"
    /\ i < Len(accounts)
    /\ LET acc == CurrentAccount(i + 1)
       IN  /\ i' = i + 1
           /\ tg_dests' = IF TokenOf(acc) # <<>> /\ ChatOf(acc) # <<>>
                          THEN tg_dests \cup {<<TokenOf(acc), ChatOf(acc)>>}
                          ELSE tg_dests
           /\ invoked' = Append(invoked, <<acc.email, acc.password, acc.server_id>>)
    /\ rpc' = "start"
    /\ expiry_before' = None
    /\ expiry_after' = None
    /\ alert_text_raw' = None
    /\ pending' = NoPending
    /\ outcome' = NoOutcome
    /\ acquired' = 0
    /\ released' = 0
    /\ trail' = {}
    /\ clock' = NoInstant
    /\ pc' = "renew"
    /\ UNCHANGED <<session_open, ok, fail, skip, not_yet, msg, summary_todo, posts,
                   handled, interrupted, dateVars, maskVars, parseVars>>

\* a chain that takes every status starting with OK for a success
CategoryByPrefix(status) ==
    IF status = "SKIP" THEN "SKIP"
    ELSE IF status \in {"OK", "OK_NOT_YET"} THEN "OK"
    ELSE "FAIL"

\* lines 357, 368, 375, 384: the branch of the if / elif chain a status takes
Category(status) ==
    IF status \in {"SKIP", "OK", "OK_NOT_YET"} THEN status ELSE "FAIL"

\* lines 354-388: the outcome is unpacked, counted and turned into a message.
\* In the SKIP branch line 360 reads the undefined name now_utc when before
\* is empty, and renew_open_utc_from_expiry may overflow: both leave main
HandleOutcome ==
    /\ pc = "renew"
    /\ rpc \in {"returned", "escaped"}
    /\ LET status == outcome[1]
           before == outcome[2]
           after  == outcome[3]
           dies   == \/ rpc = "escaped"
                     \/ /\ Category(status) = "SKIP"
                        /\ \/ ~Truthy(before)
                           \/ renew_open_utc_from_expiry(before).overflow
       IN  IF dies
           THEN /\ pc' = "crashed"
                /\ UNCHANGED <<ok, fail, skip, not_yet, msg, handled>>
           ELSE /\ skip' = IF Category(status) = "SKIP" THEN skip + 1 ELSE skip
                /\ ok' = IF Category(status) = "OK" THEN ok + 1 ELSE ok
                /\ not_yet' = IF Category(status) = "OK_NOT_YET"
                              THEN not_yet + 1 ELSE not_yet
                /\ fail' = IF Category(status) = "FAIL" THEN fail + 1 ELSE fail
                /\ msg' = [kind |-> Category(status),
                           i |-> i, before |-> before, after |-> after]
                /\ handled' = Append(handled, status)
                /\ pc' = "notify"
    /\ rpc' = "idle"
    /\ expiry_before' = None
    /\ expiry_after' = None
    /\ alert_text_raw' = None
    /\ pending' = NoPending
    /\ outcome' = NoOutcome
    /\ acquired' = 0
    /\ released' = 0
    /\ trail' = {}
    /\ clock' = NoInstant
    /\ UNCHANGED <<session_open, i, tg_dests, summary_todo, posts, invoked,
                   interrupted, dateVars, maskVars, parseVars>>

\* lines 388-394: the message is sent to the account's own destination
Notify ==
    /\ pc = "notify"
    /\ posts' \in tg_send("account", i, TokenOf(CurrentAccount(i)), ChatOf(CurrentAccount(i)))
    /\ msg' = NoMsg
    /\ pc' = IF SendEscaped(posts, posts') THEN "crashed" ELSE "loop"
    /\ UNCHANGED <<i, ok, fail, skip, not_yet, tg_dests, summary_todo, handled,
                   invoked, interrupted, dateVars, maskVars, parseVars, runVars>>

\* lines 396-399: all accounts are done; the summary is built
LoopEnd ==
    /\ pc = "loop"
    /\ i = Len(accounts)
    /\ summary_todo' = SummaryTargets(tg_dests)
    /\ pc' = "summary"
    /\ UNCHANGED <<i, ok, fail, skip, not_yet, tg_dests, msg, posts, handled,
                   invoked, interrupted, dateVars, maskVars, parseVars, runVars>>

\* lines 399-400: one iteration of the summary loop
SummarySend ==
    /\ pc = "summary"
    /\ summary_todo # <<>>
    /\ posts' \in tg_send("summary", 0, summary_todo[1][1], summary_todo[1][2])
    /\ summary_todo' = Tail(summary_todo)
    /\ pc' = IF SendEscaped(posts, posts') THEN "crashed" ELSE "summary"
    /\ UNCHANGED <<i, ok, fail, skip, not_yet, tg_dests, msg, handled, invoked,
                   interrupted, dateVars, maskVars, parseVars, runVars>>

\* lines 404-406: the run ends
Finish ==
    /\ pc = "summary"
    /\ summary_todo = <<>>
    /\ pc' = "exit"
    /\ UNCHANGED <<dateVars, maskVars, parseVars, mainVars, runVars>>

\* a handler placed inside the for loop, which goes on with the next account
InterruptResumes(p) == "loop"

\* lines 402-406: where main continues after KeyboardInterrupt, whatever it was
\* doing: the handler is outside the for loop, so the run ends
InterruptTarget(p) == "exit"

\* lines 402-406: KeyboardInterrupt inside the try of line 337. A with block
\* that is active is left first, which closes its session
Interrupt ==
    /\ pc \in {"loop", "renew", "notify", "summary"}
    /\ interrupted' = TRUE
    /\ session_open' = IF session_open > 0
                       THEN session_open - ReleasedOnExit("interrupt")
                       ELSE session_open
    /\ released' = IF session_open > 0
                   THEN released + ReleasedOnExit("interrupt")
                   ELSE released
    /\ rpc' = IF rpc = "idle" THEN "idle" ELSE "interrupted"
    /\ pc' = InterruptTarget(pc)
    /\ UNCHANGED <<i, ok, fail, skip, not_yet, tg_dests, msg, summary_todo, posts,
                   handled, invoked, expiry_before, expiry_after, alert_text_raw,
                   pending, outcome, acquired, trail, clock, dateVars, maskVars, parseVars>>

\* ---- inputs of main

MainLines ==
    { <<"a", ",", "p", ",", "1">>,
      <<"a", ",", "p", ",", "1", ",", "T", ",", "C">>,
      <<"b", ",", "q", ",", "2", ",", "T", ",", "C">>,
      <<"b", ",", "q", ",", "2", ",", "S", ",", "D">>,
      <<"b", ",", "q", ",", "2", ",", "T", ",">>,
      <<"a", ",", "p">> }

MainBatches == {None} \cup {Join(ls, "\n") : ls \in SeqsUpTo(MainLines, MaxAccounts)}

Init ==
    /\ IdleDate
    /\ IdleMask
    /\ batch \in MainBatches
    /\ lines = <<>>
    /\ idx = 1
    /\ accounts = <<>>
    /\ srcLine = <<>>
    /\ parse_error = "none"
    /\ pc = "parse_start"
    /\ IdleMain
    /\ IdleRun

Next ==
    \/ ParseStart \/ ParseLine \/ ParseEnd
    \/ MainConfigError \/ SetupAndInit \/ LoopHead \/ HandleOutcome \/ Notify
    \/ LoopEnd \/ SummarySend \/ Finish \/ Interrupt
    \/ RunnerNext

Spec == Init /\ [][Next]_vars

-----------------------------------------------------------------------------
(* Properties of renew_one_account and main *)

C3_SessionReleasedOnce ==
    /\ acquired \in {0, 1}
    /\ released <= acquired
    /\ session_open = acquired - released
    /\ rpc = "returned" => released = acquired
    /\ rpc \notin {"idle", "start", "returned", "interrupted"} => session_open = 1
    /\ pc # "renew" => session_open = 0

\* an invocation that raised while the Renew button was being looked for has
\* returned with its session released
C3_ReleasedAfterRaise ==
    /\ rpc = "returned"
    /\ pending.kind = "raise"
    /\ trail = {}
    /\ Truthy(expiry_before)
    /\ acquired = 1 /\ released = 1 /\ session_open = 0

\* the renewal window of the page's expiry text is open at instant t: the
\* text is a calendar date d and t is at or after 00:00 UTC of the day
\* before d
WindowOpenAt(text, t) ==
    LET d == Strptime(Strip(text))
    IN  d.valid /\ AtOrAfterDayBefore(t, d)

\* C4: whenever the extracted expiry is one whose renewal window is not open
\* at evaluation time, renew_one_account returns SKIP carrying that expiry,
\* and that invocation never clicks Renew nor submits the renewal form.
C4_ClosedWindowSkips ==
    (clock # NoInstant /\ ~WindowOpenAt(expiry_before, clock)) =>
        /\ trail = {}
        /\ rpc \in {"exit", "returned", "interrupted"}
        /\ rpc = "exit" =>
              pending = [kind |-> "return", value |-> <<"SKIP", expiry_before, None>>]
        /\ rpc = "returned" => outcome = <<"SKIP", expiry_before, None>>

\* SKIP was returned for an expiry three days after the clock's day
C4_SkippedThreeDaysOut ==
    /\ rpc = "returned"
    /\ outcome[1] = "SKIP"
    /\ clock.day = 9
    /\ Strptime(expiry_before).valid
    /\ Strptime(expiry_before).day = 12

\* the banner text with whitespace runs collapsed and the ends trimmed
WhitespaceNormalized(raw) == Strip(CollapseWhitespace(raw))

\* the outcome of an invocation that read the banner text, given whether the
\* text counts as "not yet eligible"
BannerOutcomeIs(notYet) ==
    IF notYet
    THEN outcome = <<"OK_NOT_YET", expiry_before, alert_text_raw>>
    ELSE outcome = <<"FAIL", expiry_before, alert_text_raw>>

\* C5: after the form is submitted, if a rejection banner is visible the
\* outcome is OK_NOT_YET (with expiryBefore and the banner text) when the
\* whitespace-normalized banner text contains "renew your server yet"
\* case-insensitively, FAIL with the banner text for any other text, and
\* never OK.
C5_BannerByNormalizedText ==
    (rpc = "returned" /\ "banner_visible" \in trail) =>
        /\ outcome[1] # "OK"
        /\ pending.kind = "return" =>
              BannerOutcomeIs(Contains(Lower(WhitespaceNormalized(alert_text_raw)),
                                       NotYetPhrase))

\* C5 as amended: the text that is searched is the banner text with
\* whitespace runs collapsed and every "×" deleted.
C5_BannerByCleanedText ==
    (rpc = "returned" /\ "banner_visible" \in trail) =>
        /\ "submit" \in trail
        /\ outcome[1] # "OK"
        /\ pending.kind = "raise" => outcome[1] = "FAIL"
        /\ pending.kind = "return" =>
              BannerOutcomeIs(
                  Contains(RemoveChar(Lower(WhitespaceNormalized(alert_text_raw)), "×"),
                           NotYetPhrase))

\* OK_NOT_YET was returned for a banner whose text has the phrase only once
\* its "×" is deleted
C5_NotYetThroughCross ==
    /\ rpc = "returned"
    /\ outcome[1] = "OK_NOT_YET"
    /\ outcome[3] = alert_text_raw
    /\ ~Contains(Lower(WhitespaceNormalized(alert_text_raw)), NotYetPhrase)

\* C6: main calls renew_one_account once per parsed account, in input order,
\* one at a time: the session of an account is released before the next one
\* is acquired, so at most one browser session is open in any state.
C6_OneAccountAtATime ==
    /\ session_open <= 1
    /\ rpc = "start" => session_open = 0
    /\ Len(invoked) <= Len(accounts)
    /\ \A k \in 1..Len(invoked) :
          invoked[k] = <<accounts[k].email, accounts[k].password, accounts[k].server_id>>
    /\ pc \in {"loop", "renew", "notify"} => Len(invoked) = i
    /\ Len(handled) >= Len(invoked) - 1
    /\ (pc \in {"summary", "exit"} /\ ~interrupted /\ parse_error = "none") =>
          Len(invoked) = Len(accounts)

\* the second account's browser session is open
C6_SecondSessionOpen ==
    /\ Len(invoked) = 2
    /\ invoked[1] # invoked[2]
    /\ session_open = 1
    /\ Len(handled) = 1

\* the text has no line that is non-blank, not a comment, of 3 or 5 fields and
\* with its three mandatory fields non-empty
NoValidLineIn(b) ==
    LET ls == SplitLines(Strip(OrEmpty(b)))
    IN  \A j \in 1..Len(ls) :
           LET line == Strip(ls[j])
           IN  \/ line = <<>>
               \/ line[1] = "#"
               \/ FieldCount(line) \notin {3, 5}
               \/ \E f \in 1..3 : Strip(Split(line, ",")[f]) = <<>>

\* nothing of the batch loop has happened
NothingRun ==
    /\ invoked = <<>> /\ handled = <<>> /\ posts = <<>>
    /\ session_open = 0 /\ acquired = 0 /\ rpc = "idle"
    /\ tg_dests = {} /\ ~interrupted

\* C9: if the batch input is empty after trimming, or no valid account line
\* remains, parsing fails with a configuration error and the run ends before
\* any browser session is acquired, any account is processed or any
\* notification is sent. (The parser's verdict is compared with the batch
\* text where parsing ends; from there on a run goes on only with a non-empty
\* accounts list and no error.)
C9_ConfigErrorEndsRun ==
    /\ pc \in {"parsed", "config_error"} =>
          (parse_error # "none" <=> NoValidLineIn(batch))
    /\ parse_error # "none" =>
          (pc \in {"config_error", "exit"} /\ accounts = <<>> /\ NothingRun)
    /\ pc \in {"parse_start", "parse_line"} => (parse_error = "none" /\ NothingRun)
    /\ (pc \notin {"parse_start", "parse_line"} /\ parse_error = "none") =>
          accounts # <<>>

\* the run has ended on a batch whose only lines were malformed
C9_EndedOnMalformedBatch ==
    /\ pc = "exit"
    /\ parse_error = "no_valid_line"
    /\ Len(lines) = MaxAccounts

\* the destinations of the accounts: the (token, chat) pairs with both set
DestsOfAccounts ==
    {<<accounts[k].tg_token, accounts[k].tg_chat>> : k \in
        {n \in 1..Len(accounts) :
            accounts[n].tg_token # <<>> /\ accounts[n].tg_chat # <<>>}}

\* the positions in posts of the summary posts to destination d
SummaryPostsTo(d) ==
    {k \in 1..Len(posts) :
        posts[k].kind = "summary" /\ <<posts[k].token, posts[k].chat>> = d}

\* C10: in a run that is not interrupted, once the last account is processed
\* and its own notification dispatched, the summary is posted exactly once to
\* every distinct (token, chat) destination of the batch and to no other:
\* two accounts with the same pair cause one summary post. (A post is one
\* request; whether the endpoint accepts it is C12's matter.)
C10_SummaryOncePerDest ==
    /\ \A k \in 1..Len(posts) :
          posts[k].kind = "summary" =>
              /\ <<posts[k].token, posts[k].chat>> \in DestsOfAccounts
              /\ Cardinality(SummaryPostsTo(<<posts[k].token, posts[k].chat>>)) = 1
              /\ Len(handled) = Len(accounts)
              /\ \A l \in k..Len(posts) : posts[l].kind = "summary"
    /\ (pc = "exit" /\ ~interrupted /\ parse_error = "none") =>
          \A d \in DestsOfAccounts : Cardinality(SummaryPostsTo(d)) = 1

\* an uninterrupted run of two accounts with one shared destination has ended
\* with one summary post
C10_SharedDestOneSummary ==
    /\ pc = "exit" /\ ~interrupted
    /\ Len(accounts) = 2
    /\ accounts[1].email # accounts[2].email
    /\ Cardinality(DestsOfAccounts) = 1
    /\ \A k \in 1..2 : <<accounts[k].tg_token, accounts[k].tg_chat>> \in DestsOfAccounts
    /\ Cardinality({k \in 1..Len(posts) : posts[k].kind = "summary"}) = 1

\* ---- C11

\* the positions in posts of the per-account posts for account j
AccountPostsOf(j) ==
    {k \in 1..Len(posts) : posts[k].kind = "account" /\ posts[k].i = j}

\* token and chat of the account are both non-empty
HasDest(acc) == TokenOf(acc) # <<>> /\ ChatOf(acc) # <<>>

\* the send of account j's message is over
Notified(j) ==
    \/ j < i
    \/ j = i /\ pc \in {"loop", "summary"}
    \/ j = i /\ pc = "exit" /\ ~interrupted

\* C11: each processed account gets exactly one per-account message; it is
\* posted if and only if the account's token and chat are both non-empty, and
\* then once and to that account's own (token, chat); an account with only
\* one of the two causes no post and adds nothing to the summary destinations.
C11_OwnDestOnly ==
    /\ pc = "notify" =>
          /\ msg # NoMsg /\ msg.i = i
          /\ Len(handled) = i
          /\ AccountPostsOf(i) = {}
    /\ pc \in {"loop", "renew", "summary"} => msg = NoMsg
    /\ \A k \in 1..Len(posts) :
          posts[k].kind = "account" =>
              /\ posts[k].i \in 1..Len(handled)
              /\ HasDest(accounts[posts[k].i])
              /\ posts[k].token = TokenOf(accounts[posts[k].i])
              /\ posts[k].chat = ChatOf(accounts[posts[k].i])
              /\ AccountPostsOf(posts[k].i) = {k}
    /\ \A j \in 1..i :
          Notified(j) => (AccountPostsOf(j) # {} <=> HasDest(accounts[j]))
    /\ tg_dests = {<<TokenOf(accounts[j]), ChatOf(accounts[j])>> :
                       j \in {n \in 1..i : HasDest(accounts[n])}}

\* a run of two accounts has ended: one has a token and no chat, the other
\* has both; one per-account post was made, to the second one's destination
C11_PartialDestSilent ==
    /\ pc = "exit" /\ ~interrupted
    /\ Len(accounts) = 2 /\ Len(handled) = 2
    /\ TokenOf(accounts[1]) # <<>> /\ ChatOf(accounts[1]) = <<>>
    /\ HasDest(accounts[2])
    /\ AccountPostsOf(1) = {}
    /\ Cardinality(AccountPostsOf(2)) = 1
    /\ tg_dests = {<<TokenOf(accounts[2]), ChatOf(accounts[2])>>}

\* ---- C12

\* some post made so far failed
SomePostFailed == \E k \in 1..Len(posts) : ~posts[k].delivered

\* C12: a post that fails, for a per-account message or for the summary,
\* never ends the batch: main stays in its normal flow, the calls made are
\* still the accounts in order, and a run that is not interrupted ends with
\* every account handled and one summary post to every destination.
C12_SendFailureGoesOn ==
    SomePostFailed =>
        /\ pc \in {"loop", "renew", "notify", "summary", "exit"}
        /\ \A k \in 1..Len(invoked) :
              invoked[k] = <<accounts[k].email, accounts[k].password,
                             accounts[k].server_id>>
        /\ (pc = "exit" /\ ~interrupted) =>
              /\ Len(handled) = Len(accounts)
              /\ Len(invoked) = Len(accounts)
              /\ \A d \in DestsOfAccounts : Cardinality(SummaryPostsTo(d)) = 1

\* a run of two accounts with two destinations has ended: the first account's
\* post failed and the second account was processed and notified; the first
\* summary post failed and the second was made
C12_WentOnAfterFailures ==
    /\ pc = "exit" /\ ~interrupted
    /\ Len(accounts) = 2 /\ Len(handled) = 2
    /\ Len(posts) = 4
    /\ posts[1].kind = "account" /\ posts[1].i = 1 /\ ~posts[1].delivered
    /\ posts[2].kind = "account" /\ posts[2].i = 2
    /\ posts[3].kind = "summary" /\ ~posts[3].delivered
    /\ posts[4].kind = "summary"
    /\ <<posts[4].token, posts[4].chat>> # <<posts[3].token, posts[3].chat>>

\* ---- C13

\* C13: once KeyboardInterrupt was delivered inside the batch loop, also while
\* a browser session was open, main has left the loop for its exit, no
\* further call of renew_one_account or session start is possible, and no
\* session is held: the one that was open has been released.
C13_InterruptEndsRun ==
    interrupted =>
        /\ pc = "exit"
        /\ session_open = 0
        /\ released = acquired
        /\ Len(invoked) = i
        /\ ~ENABLED LoopHead
        /\ ~ENABLED StartSession

\* the interrupt came while the first of two accounts had its session open:
\* the session was released and the second account was never started
C13_InterruptedInSession ==
    /\ interrupted
    /\ rpc = "interrupted"
    /\ acquired = 1 /\ released = 1 /\ session_open = 0
    /\ Len(accounts) = 2 /\ Len(invoked) = 1

\* ---- C14

\* C14: for every expiry text that is unset, empty, or no date that
\* strptime("%Y-%m-%d") accepts (such as "2025-13-40"), and every instant,
\* should_renew_utc0 returns False and raises nothing.
C14_NoDateNeverRenews ==
    (srcDate = NoDate /\ renew_result # "pending") => renew_result = "False"

\* the call was made with "2025-13-40" and returned False
C14_MonthThirteenIsFalse ==
    /\ expiry_str = <<"2","0","2","5","-","1","3","-","4","0">>
    /\ srcDate = NoDate
    /\ renew_result = "False"

\* ---- C15

\* the address as the claim describes its display: local part ln, "@", domain
Shown(ln, domain) == ln \o <<"@">> \o domain

\* the claim as written, for every local part of length <= 2 the output is the
\* trimmed input: violated by the empty local part
C15_MaskAsStated ==
    masked # None =>
        IF srcDomain = None THEN masked = <<"*", "*", "*">>
        ELSE IF Len(srcName) <= 2 THEN masked = Strip(email)
        ELSE masked = Shown(<<srcName[1]>> \o Stars(Len(srcName) - 2)
                              \o <<srcName[Len(srcName)]>>, srcDomain)

\* C15 (amended): for an email with "@" the output is the masked local part,
\* "@", and everything after the first "@" of the trimmed input unchanged; a
\* local part of length 1 or 2 is shown as it is (the output is the trimmed
\* input), an empty local part is shown as "*", and a local part of length
\* n >= 3 as its first character, n - 2 asterisks and its last character, of
\* the same length n. An input without "@", or unset, gives "***".
C15_MaskKeepsDomain ==
    masked # None =>
        IF srcDomain = None THEN masked = <<"*", "*", "*">>
        ELSE /\ Len(masked) >= Len(srcDomain) + 1
             /\ SubSeq(masked, Len(masked) - Len(srcDomain) + 1, Len(masked))
                   = srcDomain
             /\ IF Len(srcName) = 0 THEN masked = Shown(<<"*">>, srcDomain)
                ELSE IF Len(srcName) <= 2 THEN masked = Strip(email)
                ELSE /\ masked = Shown(<<srcName[1]>> \o Stars(Len(srcName) - 2)
                                         \o <<srcName[Len(srcName)]>>, srcDomain)
                     /\ Len(masked) = Len(srcName) + 1 + Len(srcDomain)

\* the call was made with a padded address whose local part has four
\* characters and whose domain holds a second "@"
C15_MaskedLongLocal ==
    /\ srcDomain = <<"x", "@", "y">>
    /\ Len(srcName) = 4
    /\ email # Strip(email)
    /\ masked = <<srcName[1], "*", "*", srcName[4], "@", "x", "@", "y">>

\* ---- C16

\* C16: a challenge solver that throws does not skip the step after it: from
\* the login challenge the runner goes to the click on the login submit,
\* from the challenge of the confirmation panel to the submit of the form
\* (an interrupt apart).
C16_ChallengeFailureKeepsNextStep ==
    [][ /\ InRun("login_captcha") => rpc' \in {"login_click", "interrupted"}
        /\ InRun("modal_captcha") => rpc' \in {"submit", "interrupted"} ]_vars

\* what holds of the code: a challenge solver that throws never ends the
\* call; the panel's goes on with the submit, the login page's with the
\* click or, skipping it, with the login check
C16_ChallengeFailureNotFatal ==
    [][ /\ InRun("login_captcha") =>
              rpc' \in {"login_click", "check_login", "interrupted"}
        /\ InRun("modal_captcha") => rpc' \in {"submit", "interrupted"} ]_vars

\* ---- C17

\* C17: once the form was submitted and the banner check answered "not
\* visible", the call can only end by returning OK with expiry_before:
\* whatever the reload, the wait and the second reading do, the value being
\* returned is OK, and the third component is the second reading (changed,
\* equal or absent) or None when the reload or the wait raised.
C17_NoBannerIsOk ==
    "banner_absent" \in trail =>
        /\ "submit" \in trail /\ "banner_visible" \notin trail
        /\ rpc \in {"refresh", "refresh_wait", "get_expiry_after", "exit",
                    "returned", "interrupted"}
        /\ rpc = "exit" =>
              /\ pending.kind = "return"
              /\ pending.value[1] = "OK"
              /\ pending.value[2] = expiry_before
              /\ pending.value[3] = expiry_after
        /\ rpc = "returned" =>
              /\ outcome[1] = "OK"
              /\ outcome[2] = expiry_before
              /\ outcome[3] = expiry_after

\* the call returned OK after a submit without banner, with no second reading
C17_OkWithoutAfter ==
    /\ rpc = "returned"
    /\ "banner_absent" \in trail
    /\ outcome = <<"OK", expiry_before, None>>

\* ---- C18

\* the number of outcomes handled so far whose status is st
HandledWith(st) == Cardinality({k \in 1..Len(handled) : handled[k] = st})

\* C18: after k accounts were processed the four counters sum to k, and each
\* counter is the number of processed accounts with its outcome: every
\* outcome adds one to exactly one counter.
C18_CountersMatchOutcomes ==
    /\ \A k \in 1..Len(handled) : handled[k] \in {"SKIP", "OK", "OK_NOT_YET", "FAIL"}
    /\ ok = HandledWith("OK")
    /\ not_yet = HandledWith("OK_NOT_YET")
    /\ skip = HandledWith("SKIP")
    /\ fail = HandledWith("FAIL")
    /\ ok + not_yet + skip + fail = Len(handled)

\* two accounts were processed, one refused by the site and one renewed
C18_OneNotYetOneOk ==
    /\ Len(handled) = 2
    /\ handled[1] = "OK_NOT_YET" /\ handled[2] = "OK"
    /\ not_yet = 1 /\ ok = 1 /\ skip = 0 /\ fail = 0

\* ---- C19

\* the statuses other than FAIL
NotFail == {"SKIP", "OK", "OK_NOT_YET"}

\* C19: every SKIP, OK and OK_NOT_YET outcome of renew_one_account, while
\* being returned, once returned, and in the message main builds from it,
\* carries a non-empty expiry_before; so the SKIP branch of main always has
\* an expiry to compute the window from, and main never leaves its loop
\* with an error while it processes an outcome.
C19_NotFailCarriesExpiry ==
    /\ (rpc = "exit" /\ pending.kind = "return" /\ pending.value[1] \in NotFail)
          => Truthy(pending.value[2])
    /\ (rpc = "returned" /\ outcome[1] \in NotFail) => Truthy(outcome[2])
    /\ (msg # NoMsg /\ msg.kind \in NotFail) => Truthy(msg.before)
    /\ pc # "crashed"

\* main built the message of a SKIP outcome whose expiry text is no date
C19_SkipHandledWithOddExpiry ==
    /\ pc = "notify"
    /\ msg.kind = "SKIP"
    /\ msg.before = <<"N", "/", "A">>
    /\ handled[Len(handled)] = "SKIP"

====
